---- MODULE Spec2Model ----
(***************************************************************************)
(* State-machine model of longtailstorelib/remotestore.go: the remote      *)
(* block store's I/O workers (remoteWorker), prefetch cache (fetchBlock,   *)
(* prefetchBlock, flushPrefetch), store-index maintainer                   *)
(* (contentIndexWorker, getStoreIndex), the optimistic update of store.lsi *)
(* (tryUpdateRemoteStoreIndex / updateRemoteStoreIndex) and the facade     *)
(* (PutStoredBlock, GetStoredBlock, PreflightGet, GetExistingContent,      *)
(* Flush, Close).                                                          *)
(*                                                                         *)
(* One action is one atomic step of one goroutine: a channel operation     *)
(* together with the code up to the next channel operation, backend call   *)
(* or mutex acquisition.  Code under fetchedBlocksSync is one step.        *)
(***************************************************************************)
EXTENDS Integers, Sequences, FiniteSets, TLC

\* ------------------------------------------------------------------ bounds
MaxCalls == 3         \* facade calls issued in the scenario "put and flush"
CacheCalls == 3       \* facade calls issued in the scenario "cache"
AccessCalls == 2      \* facade calls issued in the scenario "access"
BootCalls == 2        \* facade calls issued in the scenario "init"
CorruptCalls == 3     \* facade calls issued in the scenario "corrupt object"
VaryBytes == 3        \* leading bytes of a hash that vary in the scenario "block path"
HashBytes == 8        \* bytes of a uint64 block hash
BarrierCalls == 3     \* facade calls issued in the scenario "flush while busy"
FlushCalls == 3       \* facade calls issued in the scenario "flush"
MaxAttempts == 4      \* calls of a retry ladder: the first and three retries
ErrorCalls == 2       \* facade calls in the scenario of the failed maintainer
CloseCalls == 2       \* facade calls before Close in the scenario of the drain
RebuildCalls == 2     \* facade calls in the scenario of the missing store.lsi
SmallSlots == 1       \* slots per worker of the large channels in the scenario of full channels
FullCalls == 5        \* facade calls in the scenario of full channels
BudgetCalls == 1      \* facade calls issued in the scenario "memory budget"
ReadCalls == 3        \* facade calls issued in the scenario "get after put"
MaxPrefetchMemory == 1 \* s.maxPrefetchMemory, in units of one block
MaxUpdates == 1       \* updateRemoteStoreIndex calls per concurrent writer

AllWorkers == {"w1", "w2"}    \* names of remoteWorker goroutines
Hashes == {1, 2, 3}           \* block hashes in use
PutHashes == {1, 2}           \* hashes of the blocks callers put
ManyWorkers == {"w1", "w2", "w3"}   \* a store opened with three workers
Writers == {"A", "B", "C"}    \* processes updating the same store.lsi


\* ------------------------------------------------------- program constants
AccessInit == 0       \* AccessType Init
ReadWrite == 1        \* AccessType ReadWrite
ReadOnly == 2         \* AccessType ReadOnly
ENOENT == 2
EIO == 5
EINVAL == 22
EBADF == 9
EACCES == 13

NoBlock == 0          \* longtaillib.Longtail_StoredBlock{} : IsValid() is false
NoBlob == 0           \* no object at a key

VARIABLES
    Workers,           \* the remoteWorker goroutines started (s.workerCount of them)
    chanSlots,         \* slots per worker of the get, prefetch and block-index channels
    accessType,        \* the store's AccessType
    localIndex,        \* the index read from optionalStoreIndexPath (invalid: no path)
    ioFaults,          \* TRUE when backend calls may fail transiently
    blobs,             \* backend: block key (by hash) -> hash its content decodes to, or NoBlob
    lsi,               \* backend object store.lsi: [exists, blocks, version]
    putBlockChan, getBlockChan, prefetchBlockChan, blockIndexChan,
    preflightGetChan, getExistingContentChan,
    workerFlushChan, workerFlushReplyChan, indexFlushChan, indexFlushReplyChan,
    putClosed, blockIndexClosed,
    prefetchBlocks,    \* s.prefetchBlocks
    prefetchMemory,    \* s.prefetchMemory
    workers,           \* remoteWorker goroutines: pc and locals
    indexer,           \* contentIndexWorker goroutine: pc and locals
    flushers,          \* the goroutines started by Flush
    closer,            \* position of the caller inside Close
    puts, gets,        \* the calls issued so far (call id = position)
    putCalls, getCalls, flushCalls,   \* completion callbacks invoked, per call
    history,           \* observations used by the properties only
    panicked,          \* a goroutine dereferenced a nil pointer: the process is dead
    writers,           \* concurrent updateRemoteStoreIndex callers
    blockHash,         \* the hash handed to GetBlockPath: its eight bytes, high first
    blockPath,         \* the string GetBlockPath returned, as characters; <<>>: not called
    backendCalls,      \* what the backend answers to one retry ladder: Exists and the attempts
    ladder             \* what the retry ladder returned and counted; NoLadder: not run

chans == <<putBlockChan, getBlockChan, prefetchBlockChan, blockIndexChan,
           preflightGetChan, getExistingContentChan,
           workerFlushChan, workerFlushReplyChan, indexFlushChan, indexFlushReplyChan,
           putClosed, blockIndexClosed>>
workerCount == Cardinality(Workers)

\* NewRemoteBlockStore's slots per worker of its three large channels
ChanSlots == 2048

\* channel capacities (NewRemoteBlockStore)
putBlockChanCap == workerCount * 8
getBlockChanCap == workerCount * chanSlots
prefetchBlockChanCap == workerCount * chanSlots
blockIndexChanCap == workerCount * chanSlots
workerFlushChanCap == workerCount

vars == <<Workers, chanSlots, blockHash, blockPath, backendCalls, ladder, accessType, localIndex, ioFaults, blobs, lsi, chans, prefetchBlocks, prefetchMemory,
          workers, indexer, flushers, closer, puts, gets, putCalls, getCalls,
          flushCalls, history, panicked, writers>>

\* ----------------------------------------------------------------- helpers
Range(s) == {s[i] : i \in DOMAIN s}

RECURSIVE SeqOfSet(_)
SeqOfSet(S) == IF S = {} THEN <<>>
               ELSE LET x == CHOOSE y \in S : \A z \in S : y <= z
                    IN <<x>> \o SeqOfSet(S \ {x})

\* GetBlockSize of a stored block, in model units
BlockSize(b) == 1

\* longtaillib.ErrnoToError(errno, default): the error for an errno; 0 is nil
ErrnoToError(errno, default) == IF errno = 0 THEN 0 ELSE errno

\* longtaillib.ErrorToErrno(err, default): 0 for a nil error
ErrorToErrno(err, default) == err

\* --------------------------------------------------------------- block path
\* strings are sequences of characters
Chunks == <<"c", "h", "u", "n", "k", "s">>
HexDigits == <<"0", "1", "2", "3", "4", "5", "6", "7", "8", "9", "a", "b", "c", "d", "e", "f">>

\* the hexadecimal digits of a number given by its bytes, high first
Nibbles(bytes) ==
    [i \in 1..(2 * Len(bytes)) |->
        IF i % 2 = 1 THEN bytes[(i + 1) \div 2] \div 16 ELSE bytes[i \div 2] % 16]

\* the digits of a number without its leading zeros (one digit for zero)
RECURSIVE Significant(_)
Significant(n) == IF Len(n) > 1 /\ Head(n) = 0 THEN Significant(Tail(n)) ELSE n

\* fmt's zero padding to a width
ZeroPad(s, width) ==
    IF Len(s) >= width THEN s ELSE [i \in 1..(width - Len(s)) |-> "0"] \o s

\* fmt.Sprintf("0x%016x.lsb", blockHash)
FileNameOf(hash) ==
    LET digits == Significant(Nibbles(hash)) IN
    <<"0", "x">> \o ZeroPad([i \in DOMAIN digits |-> HexDigits[digits[i] + 1]], 16)
                 \o <<".", "l", "s", "b">>

\* a GetBlockPath whose directory is cut one character further right
ShardShifted(fileName) == SubSeq(fileName, 4, 7)

\* fileName[2:6]
Shard(fileName) == SubSeq(fileName, 3, 6)

\* the path separator of the platform the program is built for
Separators == {"/", "\\"}

\* filepath.Join of two clean elements
Join(a, b, sep) == a \o <<sep>> \o b

\* strings.Replace(name, "\\", "/", -1)
ReplaceBackslashes(name) == [i \in DOMAIN name |-> IF name[i] = "\\" THEN "/" ELSE name[i]]

\* GetBlockPath on a platform whose separator is sep
GetBlockPath(basePath, hash, sep) ==
    LET fileName == FileNameOf(hash)
        dir == Join(basePath, Shard(fileName), sep)
        name == Join(dir, fileName, sep)
    IN ReplaceBackslashes(name)

\* -------------------------------------------------------------- retry ladder
NoBackendCalls == [exists |-> "none", outcomes |-> <<>>]
NoLadder == [op |-> "none"]

\* a ladder that retries without counting the retry
AttemptUncounted(st, ok) ==
    IF st.failed THEN [st EXCEPT !.failed = ~ok, !.calls = @ + 1] ELSE st

\* one "if err != nil { retryCount++; Read() }" (or Write()) of the ladder, the
\* call succeeding when ok
Attempt(st, ok) ==
    IF st.failed
    THEN [failed |-> ~ok, retryCount |-> st.retryCount + 1, calls |-> st.calls + 1]
    ELSE st

\* the first call and the three retries, the k-th call succeeding when outcomes[k]
Ladder(outcomes) ==
    Attempt(Attempt(Attempt([failed |-> ~outcomes[1], retryCount |-> 0, calls |-> 1],
                            outcomes[2]), outcomes[3]), outcomes[4])

\* readBlobWithRetry: Exists, then the Read ladder.  checks, reads: the Exists
\* and Read calls made
ReadBlobWithRetry(exists, outcomes) ==
    IF exists = "error"
    THEN [op |-> "read", err |-> EIO, retryCount |-> 0, checks |-> 1, reads |-> 0]
    ELSE IF exists = "absent"
    THEN [op |-> "read", err |-> ENOENT, retryCount |-> 0, checks |-> 1, reads |-> 0]
    ELSE LET r == Ladder(outcomes) IN
         [op |-> "read", err |-> IF r.failed THEN EIO ELSE 0, retryCount |-> r.retryCount,
          checks |-> 1, reads |-> r.calls]

\* putStoredBlock's Write ladder, entered when Exists answered false.
\* retryStat, failStat: what is added to PutStoredBlock_RetryCount and _FailCount
WriteWithRetry(outcomes) ==
    LET r == Ladder(outcomes) IN
    [op |-> "write", failed |-> r.failed, writes |-> r.calls, retryStat |-> r.retryCount,
     failStat |-> IF r.failed THEN 1 ELSE 0]

\* ------------------------------------------------------------ prefetch cache
\* a map entry: absent, a nil pointer (tombstone), or a pendingPrefetchedBlock
NoEntry == [kind |-> "absent", stored |-> NoBlock, cbs |-> <<>>]
Tombstone == [kind |-> "nil", stored |-> NoBlock, cbs |-> <<>>]
NewSlot == [kind |-> "slot", stored |-> NoBlock, cbs |-> <<>>]

\* a test that takes every block for an invalid one
IsValidNever(b) == FALSE

\* Longtail_StoredBlock.IsValid
IsValid(b) == b # NoBlock

\* what a failed getStoredBlock adds to GetStoredBlock_FailCount: each of its
\* three error returns increments the counter once
FailCounted(err) == IF err # 0 THEN 1 ELSE 0

\* getStoredBlock: the outcome of readBlobWithRetry and of decoding, for the
\* object at hash h's key, and what the call adds to GetStoredBlock_FailCount.
\* fail: every read attempt failed.
GetStoredBlock(h, fail) ==
    LET err == IF blobs[h] = NoBlob THEN ENOENT
               ELSE IF fail THEN EIO
               ELSE IF blobs[h] # h THEN EBADF
               ELSE 0
    IN [err |-> err, block |-> IF err = 0 THEN blobs[h] ELSE NoBlock,
        fails |-> FailCounted(err)]

\* the callbacks of ids, in order, each invoked once with (code, block)
RECURSIVE Complete(_, _, _, _)
Complete(calls, ids, code, block) ==
    IF ids = <<>> THEN calls
    ELSE Complete([calls EXCEPT ![Head(ids)] = Append(@, [code |-> code, block |-> block])],
                  Tail(ids), code, block)

\* a fetchBlock whose loop runs twice over the slot's callbacks
FetchServedTwice(cbs) == cbs \o cbs

\* waiters fetchBlock's loop serves: every callback of the slot
FetchServed(cbs) == cbs

\* waiters prefetchBlock serves: the loop's indices 1 .. len-2, then index 0
PrefetchServed(cbs) ==
    SubSeq(cbs, 2, Len(cbs) - 1) \o <<cbs[1]>>

\* a flushPrefetch that removes the waited-for entries as well
FlushBlocksAll(m) == {k \in Hashes : m[k].kind # "absent"}

\* the map entries flushPrefetch removes: those it does not skip as waited for
FlushBlocks(m) == {k \in Hashes : m[k].kind # "absent"
                                  /\ ~(m[k].kind = "slot" /\ Len(m[k].cbs) > 0)}

RECURSIVE SumSizes(_, _)
SumSizes(m, S) == IF S = {} THEN 0
                  ELSE LET k == CHOOSE x \in S : TRUE
                       IN (IF IsValid(m[k].stored) THEN BlockSize(m[k].stored) ELSE 0)
                          + SumSizes(m, S \ {k})

\* ------------------------------------------------------------- remoteWorker
IdleWorker == [pc |-> "poll", run |-> TRUE, h |-> 0, id |-> 0, err |-> 0, block |-> NoBlock]

\* the top of "for run": the next iteration, or the code after the loop
LoopTop(wk) == [IdleWorker EXCEPT !.run = wk.run, !.pc = IF wk.run THEN "poll" ELSE "exit"]

InSelect(pc) == pc \in {"select_pf", "select_nopf"}

\* what no step of a worker changes
WorkerFrame == UNCHANGED <<Workers, chanSlots, blockHash, blockPath, backendCalls, ladder, accessType, localIndex, ioFaults, lsi, preflightGetChan,
                           getExistingContentChan, indexFlushChan, indexFlushReplyChan,
                           putClosed, blockIndexClosed, indexer, flushers, closer,
                           puts, gets, flushCalls, writers>>

\* a remoteWorker that tests the access type in its first select only
RejectsPutAtPoll(pc) == accessType = ReadOnly /\ pc = "poll"

\* accessType == ReadOnly, as tested where a put message is received
RejectsPut(pc) == accessType = ReadOnly

\* "if s.prefetchMemory < s.maxPrefetchMemory": which blocking select is entered
SelectFor(mem) == IF mem < MaxPrefetchMemory THEN "select_pf" ELSE "select_nopf"

\* the first select's default case (nothing to receive on the put and get
\* channels), then received == 0 and the memory test choose the blocking select
PollDefault(w) ==
    /\ workers[w].pc = "poll"
    /\ putBlockChan = <<>> /\ ~putClosed /\ getBlockChan = <<>>
    /\ workers' = [workers EXCEPT ![w].pc = SelectFor(prefetchMemory)]
    /\ WorkerFrame
    /\ UNCHANGED <<blobs, putBlockChan, getBlockChan, prefetchBlockChan, blockIndexChan,
                   workerFlushChan, workerFlushReplyChan, prefetchBlocks, prefetchMemory,
                   putCalls, getCalls, history, panicked>>

\* a receive from the closed put channel (more == false): run = false
PutChanClosed(w) ==
    /\ workers[w].pc = "poll" \/ InSelect(workers[w].pc)
    /\ putBlockChan = <<>> /\ putClosed
    /\ workers' = [workers EXCEPT ![w] =
                      IF @.pc = "poll"
                      THEN [@ EXCEPT !.run = FALSE, !.pc = SelectFor(prefetchMemory)]
                      ELSE [IdleWorker EXCEPT !.run = FALSE, !.pc = "exit"]]
    /\ WorkerFrame
    /\ UNCHANGED <<blobs, putBlockChan, getBlockChan, prefetchBlockChan, blockIndexChan,
                   workerFlushChan, workerFlushReplyChan, prefetchBlocks, prefetchMemory,
                   putCalls, getCalls, history, panicked>>

\* a put message is received: rejected on a ReadOnly store, else putStoredBlock starts
TakePut(w) ==
    /\ workers[w].pc = "poll" \/ InSelect(workers[w].pc)
    /\ putBlockChan # <<>>
    /\ LET id == Head(putBlockChan) IN
       /\ putBlockChan' = Tail(putBlockChan)
       /\ IF RejectsPut(workers[w].pc)
          THEN /\ putCalls' = [putCalls EXCEPT ![id] = Append(@, EACCES)]
               /\ workers' = [workers EXCEPT ![w] = LoopTop(@)]
          ELSE /\ putCalls' = putCalls
               /\ workers' = [workers EXCEPT ![w] =
                                 [@ EXCEPT !.pc = "put_exists", !.id = id, !.h = puts[id]]]
    /\ WorkerFrame
    /\ UNCHANGED <<blobs, getBlockChan, prefetchBlockChan, blockIndexChan,
                   workerFlushChan, workerFlushReplyChan, prefetchBlocks, prefetchMemory,
                   getCalls, history, panicked>>

\* putStoredBlock's "if exists, err := objHandle.Exists(); err == nil && !exists"
WritesBlock(existsErr, exists) == ~existsErr /\ ~exists

\* what putStoredBlock returns when all four Write attempts failed:
\* ErrnoToError(errno, ErrEIO), errno being WriteStoredBlockToBuffer's (0)
WriteFailedError == ErrnoToError(0, EIO)

\* putStoredBlock: objHandle.Exists(); when the write is skipped, the BlockIndex
\* copy is sent, nil is returned and remoteWorker invokes the completion callback
PutExists(w) ==
    /\ workers[w].pc = "put_exists"
    /\ \E existsErr \in {FALSE} \cup {e \in {TRUE} : ioFaults} :
       LET exists == blobs[workers[w].h] # NoBlob IN
       IF WritesBlock(existsErr, exists)
       THEN /\ workers' = [workers EXCEPT ![w].pc = "put_write"]
            /\ history' = [history EXCEPT !.putOps = @ + 1]
            /\ UNCHANGED <<blockIndexChan, putCalls>>
       ELSE /\ Len(blockIndexChan) < blockIndexChanCap
            /\ blockIndexChan' = Append(blockIndexChan, workers[w].h)
            /\ putCalls' = [putCalls EXCEPT ![workers[w].id] = Append(@, ErrorToErrno(0, EIO))]
            /\ workers' = [workers EXCEPT ![w] = LoopTop(@)]
            /\ history' = [history EXCEPT !.putOps = @ + 1,
                                          !.biSent = @ \cup {workers[w].id}]
    /\ WorkerFrame
    /\ UNCHANGED <<blobs, putBlockChan, getBlockChan, prefetchBlockChan,
                   workerFlushChan, workerFlushReplyChan, prefetchBlocks, prefetchMemory,
                   getCalls, panicked>>

\* putStoredBlock: the Write ladder (up to four attempts), then on success the
\* BlockIndex copy is sent and nil returned; remoteWorker invokes the callback
PutWrite(w) ==
    /\ workers[w].pc = "put_write"
    /\ \E ok \in {TRUE} \cup {e \in {FALSE} : ioFaults} :
       IF ok
       THEN /\ Len(blockIndexChan) < blockIndexChanCap
            /\ blobs' = [blobs EXCEPT ![workers[w].h] = workers[w].h]
            /\ blockIndexChan' = Append(blockIndexChan, workers[w].h)
            /\ putCalls' = [putCalls EXCEPT ![workers[w].id] = Append(@, ErrorToErrno(0, EIO))]
            /\ history' = [history EXCEPT !.putOps = @ + 1,
                                          !.biSent = @ \cup {workers[w].id},
                                          !.written[workers[w].h] = @ + 1]
       ELSE /\ putCalls' = [putCalls EXCEPT ![workers[w].id] =
                               Append(@, ErrorToErrno(WriteFailedError, EIO))]
            /\ history' = [history EXCEPT !.putOps = @ + 1]
            /\ UNCHANGED <<blobs, blockIndexChan>>
    /\ workers' = [workers EXCEPT ![w] = LoopTop(@)]
    /\ WorkerFrame
    /\ UNCHANGED <<putBlockChan, getBlockChan, prefetchBlockChan,
                   workerFlushChan, workerFlushReplyChan, prefetchBlocks, prefetchMemory,
                   getCalls, panicked>>

\* a get message is received: fetchBlock up to its first Unlock
TakeGet(w) ==
    /\ workers[w].pc = "poll" \/ InSelect(workers[w].pc)
    /\ getBlockChan # <<>>
    /\ LET id == Head(getBlockChan)
           h == gets[id].h
           prefetchedBlock == prefetchBlocks[h]
       IN
       /\ getBlockChan' = Tail(getBlockChan)
       /\ history' = [history EXCEPT !.taken = @ \cup {id}]
       /\ IF prefetchedBlock.kind = "slot"
          THEN IF IsValid(prefetchedBlock.stored)
               THEN /\ prefetchBlocks' = [prefetchBlocks EXCEPT ![h] = Tombstone]
                    /\ prefetchMemory' = prefetchMemory - BlockSize(prefetchedBlock.stored)
                    /\ getCalls' = Complete(getCalls, <<id>>, 0, prefetchedBlock.stored)
                    /\ workers' = [workers EXCEPT ![w] = LoopTop(@)]
               ELSE /\ prefetchBlocks' = [prefetchBlocks EXCEPT ![h].cbs = Append(@, id)]
                    /\ workers' = [workers EXCEPT ![w] = LoopTop(@)]
                    /\ UNCHANGED <<prefetchMemory, getCalls>>
          ELSE /\ prefetchBlocks' = [prefetchBlocks EXCEPT ![h] = NewSlot]
               /\ workers' = [workers EXCEPT ![w] =
                                 [@ EXCEPT !.pc = "fetch_read", !.id = id, !.h = h]]
               /\ UNCHANGED <<prefetchMemory, getCalls>>
    /\ WorkerFrame
    /\ UNCHANGED <<blobs, putBlockChan, prefetchBlockChan, blockIndexChan,
                   workerFlushChan, workerFlushReplyChan, putCalls, panicked>>

\* fetchBlock: getStoredBlock, outside the mutex
FetchRead(w) ==
    /\ workers[w].pc = "fetch_read"
    /\ \E fail \in {FALSE} \cup {e \in {TRUE} : ioFaults} :
       LET r == GetStoredBlock(workers[w].h, fail) IN
       /\ workers' = [workers EXCEPT ![w] =
                      [@ EXCEPT !.pc = "fetch_lock", !.err = r.err, !.block = r.block]]
       /\ history' = [history EXCEPT !.failCount = @ + r.fails]
    /\ WorkerFrame
    /\ UNCHANGED <<blobs, putBlockChan, getBlockChan, prefetchBlockChan, blockIndexChan,
                   workerFlushChan, workerFlushReplyChan, prefetchBlocks, prefetchMemory,
                   putCalls, getCalls, panicked>>

\* fetchBlock after its backend read: the second Lock to the end
FetchEnd(w) ==
    /\ workers[w].pc = "fetch_lock"
    /\ LET wk == workers[w]
           prefetchedBlock == prefetchBlocks[wk.h]
       IN
       CASE prefetchedBlock.kind = "nil" ->
              \* exists && prefetchedBlock == nil: dispose and return
              /\ workers' = [workers EXCEPT ![w] = LoopTop(@)]
              /\ UNCHANGED <<prefetchBlocks, getCalls, panicked>>
         [] prefetchedBlock.kind = "absent" ->
              \* prefetchedBlock.completeCallbacks on a nil pointer
              /\ panicked' = TRUE
              /\ UNCHANGED <<workers, prefetchBlocks, getCalls>>
         [] prefetchedBlock.kind = "slot" ->
              /\ prefetchBlocks' = [prefetchBlocks EXCEPT ![wk.h] = Tombstone]
              /\ getCalls' =
                   Complete(Complete(getCalls, FetchServed(prefetchedBlock.cbs),
                                     ErrorToErrno(wk.err, EIO), wk.block),
                            <<wk.id>>, ErrorToErrno(wk.err, EIO), wk.block)
              /\ workers' = [workers EXCEPT ![w] = LoopTop(@)]
              /\ UNCHANGED panicked
    /\ WorkerFrame
    /\ UNCHANGED <<blobs, putBlockChan, getBlockChan, prefetchBlockChan, blockIndexChan,
                   workerFlushChan, workerFlushReplyChan, prefetchMemory,
                   putCalls, history>>

\* a prefetch message is received (only in the select entered while
\* prefetchMemory < maxPrefetchMemory): prefetchBlock up to its first Unlock
TakePrefetch(w) ==
    /\ workers[w].pc = "select_pf"
    /\ prefetchBlockChan # <<>>
    /\ LET h == Head(prefetchBlockChan) IN
       /\ prefetchBlockChan' = Tail(prefetchBlockChan)
       /\ IF prefetchBlocks[h].kind # "absent"
          THEN /\ workers' = [workers EXCEPT ![w] = LoopTop(@)]
               /\ UNCHANGED prefetchBlocks
          ELSE /\ prefetchBlocks' = [prefetchBlocks EXCEPT ![h] = NewSlot]
               /\ workers' = [workers EXCEPT ![w] = [@ EXCEPT !.pc = "prefetch_read", !.h = h]]
    /\ WorkerFrame
    /\ UNCHANGED <<blobs, putBlockChan, getBlockChan, blockIndexChan,
                   workerFlushChan, workerFlushReplyChan, prefetchMemory,
                   putCalls, getCalls, history, panicked>>

\* prefetchBlock: getStoredBlock, outside the mutex; on an error it returns,
\* leaving the slot it installed
PrefetchRead(w) ==
    /\ workers[w].pc = "prefetch_read"
    /\ \E fail \in {FALSE} \cup {e \in {TRUE} : ioFaults} :
       LET r == GetStoredBlock(workers[w].h, fail) IN
       /\ workers' = [workers EXCEPT ![w] =
                      IF r.err # 0 THEN LoopTop(@)
                      ELSE [@ EXCEPT !.pc = "prefetch_lock", !.err = r.err, !.block = r.block]]
       /\ history' = [history EXCEPT !.failCount = @ + r.fails]
    /\ WorkerFrame
    /\ UNCHANGED <<blobs, putBlockChan, getBlockChan, prefetchBlockChan, blockIndexChan,
                   workerFlushChan, workerFlushReplyChan, prefetchBlocks, prefetchMemory,
                   putCalls, getCalls, panicked>>

\* prefetchBlock after its backend read: the second Lock to the end
PrefetchEnd(w) ==
    /\ workers[w].pc = "prefetch_lock"
    /\ LET wk == workers[w]
           prefetchedBlock == prefetchBlocks[wk.h]
       IN
       IF prefetchedBlock.kind # "slot"
       THEN \* prefetchedBlock == nil: dispose and return
            UNCHANGED <<prefetchBlocks, prefetchMemory, getCalls>>
       ELSE IF Len(prefetchedBlock.cbs) = 0
       THEN /\ prefetchBlocks' = [prefetchBlocks EXCEPT ![wk.h].stored = wk.block]
            /\ prefetchMemory' = prefetchMemory + BlockSize(wk.block)
            /\ UNCHANGED getCalls
       ELSE /\ prefetchBlocks' = [prefetchBlocks EXCEPT ![wk.h] = Tombstone]
            /\ getCalls' = Complete(getCalls, PrefetchServed(prefetchedBlock.cbs),
                                    ErrorToErrno(wk.err, EIO), wk.block)
            /\ UNCHANGED prefetchMemory
    /\ workers' = [workers EXCEPT ![w] = LoopTop(@)]
    /\ WorkerFrame
    /\ UNCHANGED <<blobs, putBlockChan, getBlockChan, prefetchBlockChan, blockIndexChan,
                   workerFlushChan, workerFlushReplyChan, putCalls, history, panicked>>

\* flushPrefetch under the mutex: the map and the counter after it
FlushedBlocks(m) == [k \in Hashes |-> IF k \in FlushBlocks(m) THEN NoEntry ELSE m[k]]
FlushedMemory(m, mem) == mem - SumSizes(m, FlushBlocks(m))

\* a flush token is received; flushPrefetch empties the prefetch channel
TakeFlush(w) ==
    /\ InSelect(workers[w].pc)
    /\ workerFlushChan > 0
    /\ workerFlushChan' = workerFlushChan - 1
    /\ prefetchBlockChan' = <<>>
    /\ workers' = [workers EXCEPT ![w].pc = "flush_lock"]
    /\ UNCHANGED history
    /\ WorkerFrame
    /\ UNCHANGED <<blobs, putBlockChan, getBlockChan, blockIndexChan,
                   workerFlushReplyChan, prefetchBlocks, prefetchMemory,
                   putCalls, getCalls, panicked>>

\* flushPrefetch: the part under the mutex
FlushLocked(w) ==
    /\ workers[w].pc = "flush_lock"
    /\ prefetchBlocks' = FlushedBlocks(prefetchBlocks)
    /\ prefetchMemory' = FlushedMemory(prefetchBlocks, prefetchMemory)
    /\ workers' = [workers EXCEPT ![w].pc = "flush_reply"]
    /\ WorkerFrame
    /\ UNCHANGED <<blobs, putBlockChan, getBlockChan, prefetchBlockChan, blockIndexChan,
                   workerFlushChan, workerFlushReplyChan, putCalls, getCalls, history,
                   panicked>>

\* flushReplyMessages <- 0
FlushReply(w) ==
    /\ workers[w].pc = "flush_reply"
    /\ Len(workerFlushReplyChan) < workerFlushChanCap
    /\ workerFlushReplyChan' = Append(workerFlushReplyChan, 0)
    /\ workers' = [workers EXCEPT ![w] = LoopTop(@)]
    /\ WorkerFrame
    /\ UNCHANGED <<blobs, putBlockChan, getBlockChan, prefetchBlockChan, blockIndexChan,
                   workerFlushChan, prefetchBlocks, prefetchMemory, putCalls, getCalls,
                   history, panicked>>

\* after the loop: flushPrefetch empties the prefetch channel
ExitDrain(w) ==
    /\ workers[w].pc = "exit"
    /\ prefetchBlockChan' = <<>>
    /\ workers' = [workers EXCEPT ![w].pc = "exit_lock"]
    /\ WorkerFrame
    /\ UNCHANGED <<blobs, putBlockChan, getBlockChan, blockIndexChan, workerFlushChan,
                   workerFlushReplyChan, prefetchBlocks, prefetchMemory,
                   putCalls, getCalls, history, panicked>>

\* after the loop: flushPrefetch under the mutex, then remoteWorker returns nil
ExitFlush(w) ==
    /\ workers[w].pc = "exit_lock"
    /\ prefetchBlocks' = FlushedBlocks(prefetchBlocks)
    /\ prefetchMemory' = FlushedMemory(prefetchBlocks, prefetchMemory)
    /\ workers' = [workers EXCEPT ![w].pc = "done"]
    /\ WorkerFrame
    /\ UNCHANGED <<blobs, putBlockChan, getBlockChan, prefetchBlockChan, blockIndexChan,
                   workerFlushChan, workerFlushReplyChan, putCalls, getCalls, history,
                   panicked>>

\* ------------------------------------------------------------- store index
\* a longtaillib.Longtail_StoreIndex value: the zero value is not IsValid()
InvalidIndex == [valid |-> FALSE, blocks |-> {}]
StoreIndexOf(B) == [valid |-> TRUE, blocks |-> B]

\* longtaillib.MergeStoreIndex: the block set of the merge of two indexes
MergeStoreIndex(a, b) == a \cup b

\* a tryUpdateRemoteStoreIndex that writes updatedStoreIndex without merging
BlobUnmerged(updated, existed, remote) == updated

\* what tryUpdateRemoteStoreIndex writes: the merge with what it read when the
\* object existed at LockWriteVersion, else updatedStoreIndex alone
BlobToWrite(updated, existed, remote) ==
    IF existed THEN MergeStoreIndex(updated, remote) ELSE updated

\* BlobObject.Write after LockWriteVersion: false when the version changed
WriteAccepted(obj, lockedVersion) == obj.version = lockedVersion

\* updateRemoteStoreIndex as run by the store's own maintainer, no other process
\* touching store.lsi meanwhile: LockWriteVersion, Read, merge and Write.
\* fail: Read or Write returned an error.
UpdateRemoteStoreIndex(updated, obj, fail) ==
    IF fail THEN [err |-> EIO, new |-> InvalidIndex, lsi |-> obj]
    ELSE LET blob == BlobToWrite(updated.blocks, obj.exists, obj.blocks) IN
         [err |-> 0,
          new |-> IF obj.exists THEN StoreIndexOf(blob) ELSE InvalidIndex,
          lsi |-> [exists |-> TRUE, blocks |-> blob, version |-> obj.version + 1]]

\* updateStoreIndex: the index with the added block indexes merged in
UpdateStoreIndex(storeIndex, added) ==
    IF ~storeIndex.valid THEN StoreIndexOf(Range(added))
    ELSE StoreIndexOf(MergeStoreIndex(Range(added), storeIndex.blocks))

\* buildStoreIndexFromStoreBlocks: the .lsb objects whose content matches their key
BuildStoreIndexFromStoreBlocks == StoreIndexOf({h \in Hashes : blobs[h] = h})

\* readStoreStoreIndex
ReadStoreStoreIndex(fail) ==
    IF lsi.exists /\ ~fail THEN StoreIndexOf(lsi.blocks) ELSE InvalidIndex

\* a getStoreIndex that takes the Init branch whatever the access type
SkipsLoadAlways == TRUE

\* getStoreIndex's "if accessType == Init": bootstrap skips loading and marks the
\* index to be saved
SkipsLoad == accessType = AccessInit

\* a getStoreIndex that leaves the added block indexes out
MergesAddedNever(added) == FALSE

\* getStoreIndex's "if len(addedBlockIndexes) > 0": the added block indexes are
\* merged into the index it returns
MergesAdded(added) == Len(added) > 0

\* getStoreIndex.  readFail, updFail: backend errors.
\* Gives the index, saveStoreIndex and store.lsi after the call.
GetStoreIndex(storeIndex, saveStoreIndex, added, readFail, updFail) ==
    LET boot ==
          IF storeIndex.valid
          THEN [si |-> storeIndex, save |-> saveStoreIndex, lsi |-> lsi]
          ELSE LET save1 == IF SkipsLoad THEN TRUE ELSE saveStoreIndex
                   si1 == IF SkipsLoad THEN InvalidIndex
                          ELSE IF accessType = ReadOnly /\ localIndex.valid THEN localIndex
                          ELSE ReadStoreStoreIndex(readFail)
               IN IF si1.valid
                  THEN [si |-> si1, save |-> save1, lsi |-> lsi]
                  ELSE IF accessType = ReadOnly
                  THEN [si |-> StoreIndexOf({}), save |-> save1, lsi |-> lsi]
                  ELSE LET built == BuildStoreIndexFromStoreBlocks
                           upd == UpdateRemoteStoreIndex(built, lsi, updFail)
                       IN [si |-> IF upd.new.valid THEN upd.new ELSE built,
                           save |-> IF upd.err # 0 THEN TRUE ELSE save1,
                           lsi |-> upd.lsi]
    IN IF MergesAdded(added)
       THEN [boot EXCEPT !.si = UpdateStoreIndex(boot.si, added), !.save = TRUE]
       ELSE boot

\* ------------------------------------------------------- contentIndexWorker
IdleIndexer == [pc |-> "poll", run |-> TRUE, storeIndex |-> InvalidIndex,
                saveStoreIndex |-> FALSE, addedBlockIndexes |-> <<>>, code |-> 0,
                sending |-> <<>>]

\* what no step of the maintainer changes
IndexFrame == UNCHANGED <<Workers, chanSlots, blockHash, blockPath, backendCalls, ladder, accessType, localIndex, ioFaults, blobs, putBlockChan, getBlockChan,
                          workerFlushChan, workerFlushReplyChan, putClosed,
                          blockIndexClosed, prefetchBlocks, prefetchMemory, workers,
                          flushers, closer, puts, gets, putCalls, getCalls, flushCalls,
                          panicked, writers>>

\* the top of "for run"
IndexLoopTop(ix) == [ix EXCEPT !.pc = IF ix.run THEN "poll" ELSE "final"]

\* the flush token's "len(addedBlockIndexes) > 0 && accessType != ReadOnly"
FlushMerges(ix) == Len(ix.addedBlockIndexes) > 0 /\ accessType # ReadOnly

\* after the loop: "if accessType == ReadOnly { return nil }"
ExitReturnsEarly == accessType = ReadOnly

\* the first select's default case, then "if received > 0" is false
IndexPollDefault ==
    /\ indexer.pc = "poll"
    /\ preflightGetChan = <<>> /\ blockIndexChan = <<>> /\ ~blockIndexClosed
    /\ getExistingContentChan = <<>>
    /\ indexer' = [indexer EXCEPT !.pc = "block"]
    /\ IndexFrame
    /\ UNCHANGED <<lsi, prefetchBlockChan, blockIndexChan, preflightGetChan,
                   getExistingContentChan, indexFlushChan, indexFlushReplyChan, history>>

\* the index, flag and store.lsi after the getStoreIndex call of a query
Bootstrap(readFail, updFail) ==
    GetStoreIndex(indexer.storeIndex, indexer.saveStoreIndex,
                  indexer.addedBlockIndexes, readFail, updFail)

\* a preflight message is received: getStoreIndex, then onPreflighMessage
IndexTakePreflight ==
    /\ indexer.pc \in {"poll", "block"}
    /\ preflightGetChan # <<>>
    /\ LET blockHashes == Head(preflightGetChan) IN
       /\ Len(prefetchBlockChan) + Len(blockHashes) <= prefetchBlockChanCap
       /\ \E readFail, updFail \in {FALSE} \cup {e \in {TRUE} : ioFaults} :
          LET g == Bootstrap(readFail, updFail) IN
          /\ indexer' = IndexLoopTop([indexer EXCEPT !.storeIndex = g.si,
                                                     !.saveStoreIndex = g.save])
          /\ lsi' = g.lsi
          /\ history' = [history EXCEPT !.lsiWrites = IF g.lsi # lsi THEN @ + 1 ELSE @]
       /\ prefetchBlockChan' = prefetchBlockChan \o blockHashes
       /\ preflightGetChan' = Tail(preflightGetChan)
    /\ IndexFrame
    /\ UNCHANGED <<blockIndexChan, getExistingContentChan, indexFlushChan,
                   indexFlushReplyChan>>

\* the same message step by step, for channels that may fill up: the message is
\* received and getStoreIndex called; onPreflighMessage is to send blockHashes
IndexStartPreflight ==
    /\ indexer.pc \in {"poll", "block"}
    /\ preflightGetChan # <<>>
    /\ \E readFail, updFail \in {FALSE} \cup {e \in {TRUE} : ioFaults} :
       LET g == Bootstrap(readFail, updFail) IN
       /\ indexer' = [indexer EXCEPT !.pc = "preflight_send", !.storeIndex = g.si,
                                     !.saveStoreIndex = g.save,
                                     !.sending = Head(preflightGetChan)]
       /\ lsi' = g.lsi
       /\ history' = [history EXCEPT !.lsiWrites = IF g.lsi # lsi THEN @ + 1 ELSE @]
    /\ preflightGetChan' = Tail(preflightGetChan)
    /\ IndexFrame
    /\ UNCHANGED <<prefetchBlockChan, blockIndexChan, getExistingContentChan,
                   indexFlushChan, indexFlushReplyChan>>

\* onPreflighMessage: one "prefetchBlockMessages <- ..." of its loop, which
\* waits while the channel is full; after the last one, OnComplete
IndexSendPrefetch ==
    /\ indexer.pc = "preflight_send"
    /\ IF indexer.sending = <<>>
       THEN /\ indexer' = IndexLoopTop(indexer)
            /\ UNCHANGED prefetchBlockChan
       ELSE /\ Len(prefetchBlockChan) < prefetchBlockChanCap
            /\ prefetchBlockChan' = Append(prefetchBlockChan, Head(indexer.sending))
            /\ indexer' = [indexer EXCEPT !.sending = Tail(@)]
    /\ IndexFrame
    /\ UNCHANGED <<lsi, blockIndexChan, preflightGetChan, getExistingContentChan,
                   indexFlushChan, indexFlushReplyChan, history>>

\* longtaillib.GetExistingStoreIndex for a query naming every chunk with no
\* minimum block usage: the blocks of the index
GetExistingStoreIndex(storeIndex) == storeIndex.blocks

\* an existing-content message is received: getStoreIndex, then
\* onGetExistingContentMessage completes the query with the existing index
IndexTakeExisting ==
    /\ indexer.pc \in {"poll", "block"}
    /\ getExistingContentChan # <<>>
    /\ \E readFail, updFail \in {FALSE} \cup {e \in {TRUE} : ioFaults} :
       LET g == Bootstrap(readFail, updFail) IN
       /\ indexer' = IndexLoopTop([indexer EXCEPT !.storeIndex = g.si,
                                                  !.saveStoreIndex = g.save])
       /\ lsi' = g.lsi
       /\ history' = [history EXCEPT !.lsiWrites = IF g.lsi # lsi THEN @ + 1 ELSE @,
                                     !.answers = Append(@, GetExistingStoreIndex(g.si))]
    /\ getExistingContentChan' = Tail(getExistingContentChan)
    /\ IndexFrame
    /\ UNCHANGED <<prefetchBlockChan, blockIndexChan, preflightGetChan, indexFlushChan,
                   indexFlushReplyChan>>

\* a block-index message is received: it is appended to addedBlockIndexes
IndexTakeBlockIndex ==
    /\ indexer.pc \in {"poll", "block"}
    /\ blockIndexChan # <<>>
    /\ indexer' = IndexLoopTop([indexer EXCEPT !.addedBlockIndexes =
                                                  Append(@, Head(blockIndexChan))])
    /\ blockIndexChan' = Tail(blockIndexChan)
    /\ history' = [history EXCEPT !.received = @ \cup {Head(blockIndexChan)}]
    /\ IndexFrame
    /\ UNCHANGED <<lsi, prefetchBlockChan, preflightGetChan, getExistingContentChan,
                   indexFlushChan, indexFlushReplyChan>>

\* a receive from the closed block-index channel (more == false): run = false
IndexChanClosed ==
    /\ indexer.pc \in {"poll", "block"}
    /\ blockIndexChan = <<>> /\ blockIndexClosed
    /\ indexer' = [indexer EXCEPT !.run = FALSE,
                                  !.pc = IF @ = "poll" THEN "block" ELSE "final"]
    /\ IndexFrame
    /\ UNCHANGED <<lsi, prefetchBlockChan, blockIndexChan, preflightGetChan,
                   getExistingContentChan, indexFlushChan, indexFlushReplyChan, history>>

\* the merge and persist of a flush token and of the code after the loop:
\* the index, flag, batch, store.lsi and error after them
MergeAndPersist(ix, merges, fail) ==
    LET si1 == IF merges THEN UpdateStoreIndex(ix.storeIndex, ix.addedBlockIndexes)
               ELSE ix.storeIndex
        added1 == IF merges THEN <<>> ELSE ix.addedBlockIndexes
        save1 == merges \/ ix.saveStoreIndex
        upd == UpdateRemoteStoreIndex(si1, lsi, fail)
    IN IF ~save1
       THEN [si |-> si1, added |-> added1, save |-> save1, lsi |-> lsi, err |-> 0]
       ELSE IF upd.err # 0
       THEN [si |-> si1, added |-> added1, save |-> save1, lsi |-> lsi, err |-> upd.err]
       ELSE [si |-> IF upd.new.valid THEN upd.new ELSE si1, added |-> added1,
             save |-> FALSE, lsi |-> upd.lsi, err |-> 0]

\* a flush token is received (second select only)
IndexTakeFlush ==
    /\ indexer.pc = "block"
    /\ indexFlushChan > 0
    /\ indexFlushChan' = indexFlushChan - 1
    /\ \E fail \in {FALSE} \cup {e \in {TRUE} : ioFaults} :
       LET m == MergeAndPersist(indexer, FlushMerges(indexer), fail) IN
       /\ indexer' = [indexer EXCEPT !.pc = "flush_reply", !.storeIndex = m.si,
                                     !.addedBlockIndexes = m.added,
                                     !.saveStoreIndex = m.save,
                                     !.code = ErrorToErrno(m.err, EIO)]
       /\ lsi' = m.lsi
       /\ history' = [history EXCEPT !.lsiWrites = IF m.lsi # lsi THEN @ + 1 ELSE @]
    /\ IndexFrame
    /\ UNCHANGED <<prefetchBlockChan, blockIndexChan, preflightGetChan,
                   getExistingContentChan, indexFlushReplyChan>>

\* flushReplyMessages <- the code
IndexFlushReply ==
    /\ indexer.pc = "flush_reply"
    /\ Len(indexFlushReplyChan) < 1
    /\ indexFlushReplyChan' = Append(indexFlushReplyChan, indexer.code)
    /\ indexer' = IndexLoopTop([indexer EXCEPT !.code = 0])
    /\ IndexFrame
    /\ UNCHANGED <<lsi, prefetchBlockChan, blockIndexChan, preflightGetChan,
                   getExistingContentChan, indexFlushChan, history>>

\* after the loop: return on a ReadOnly store, else the final merge and persist
IndexExit ==
    /\ indexer.pc = "final"
    /\ \E fail \in {FALSE} \cup {e \in {TRUE} : ioFaults} :
       LET m == IF ExitReturnsEarly
                THEN [si |-> indexer.storeIndex, added |-> indexer.addedBlockIndexes,
                      save |-> indexer.saveStoreIndex, lsi |-> lsi, err |-> 0]
                ELSE MergeAndPersist(indexer, Len(indexer.addedBlockIndexes) > 0, fail)
       IN
       /\ indexer' = [indexer EXCEPT !.pc = "done", !.storeIndex = InvalidIndex,
                                     !.addedBlockIndexes = m.added,
                                     !.saveStoreIndex = m.save,
                                     !.code = ErrorToErrno(m.err, EIO)]
       /\ lsi' = m.lsi
       /\ history' = [history EXCEPT !.lsiWrites = IF m.lsi # lsi THEN @ + 1 ELSE @]
    /\ IndexFrame
    /\ UNCHANGED <<prefetchBlockChan, blockIndexChan, preflightGetChan,
                   getExistingContentChan, indexFlushChan, indexFlushReplyChan>>

\* ------------------------------------------ storeIndexWorkerReplyErrorState
\* the maintainer goroutine before "client, err := s.blobStore.NewClient(ctx)"
StartingIndexer == [IdleIndexer EXCEPT !.pc = "start"]

\* the maintainer inside storeIndexWorkerReplyErrorState, to return err
ErrorState(ix, err) == [ix EXCEPT !.pc = "error", !.storeIndex = InvalidIndex, !.code = err]

\* NewClient: on an error the maintainer enters the error-reply state
IndexNewClient ==
    /\ indexer.pc = "start"
    /\ \E fail \in {FALSE} \cup {e \in {TRUE} : ioFaults} :
          indexer' = IF fail THEN ErrorState(indexer, EIO) ELSE [indexer EXCEPT !.pc = "poll"]
    /\ IndexFrame
    /\ UNCHANGED <<lsi, prefetchBlockChan, blockIndexChan, preflightGetChan,
                   getExistingContentChan, indexFlushChan, indexFlushReplyChan, history>>

\* error-reply state, "case <-flushMessages": the reply is to be 0
ErrorTakeFlush ==
    /\ indexer.pc = "error"
    /\ indexFlushChan > 0
    /\ indexFlushChan' = indexFlushChan - 1
    /\ indexer' = [indexer EXCEPT !.pc = "error_reply"]
    /\ IndexFrame
    /\ UNCHANGED <<lsi, prefetchBlockChan, blockIndexChan, preflightGetChan,
                   getExistingContentChan, indexFlushReplyChan, history>>

\* error-reply state: flushReplyMessages <- 0
ErrorFlushReply ==
    /\ indexer.pc = "error_reply"
    /\ Len(indexFlushReplyChan) < 1
    /\ indexFlushReplyChan' = Append(indexFlushReplyChan, 0)
    /\ indexer' = [indexer EXCEPT !.pc = "error"]
    /\ IndexFrame
    /\ UNCHANGED <<lsi, prefetchBlockChan, blockIndexChan, preflightGetChan,
                   getExistingContentChan, indexFlushChan, history>>

\* error-reply state: a block-index message is received and dropped
ErrorTakeBlockIndex ==
    /\ indexer.pc = "error"
    /\ blockIndexChan # <<>>
    /\ blockIndexChan' = Tail(blockIndexChan)
    /\ IndexFrame
    /\ UNCHANGED <<indexer, lsi, prefetchBlockChan, preflightGetChan,
                   getExistingContentChan, indexFlushChan, indexFlushReplyChan, history>>

\* error-reply state: an existing-content message is completed with EINVAL
ErrorTakeExisting ==
    /\ indexer.pc = "error"
    /\ getExistingContentChan # <<>>
    /\ getExistingContentChan' = Tail(getExistingContentChan)
    /\ IndexFrame
    /\ UNCHANGED <<indexer, lsi, prefetchBlockChan, blockIndexChan, preflightGetChan,
                   indexFlushChan, indexFlushReplyChan, history>>

\* error-reply state: the block-index channel is closed; the maintainer returns
\* its error
ErrorChanClosed ==
    /\ indexer.pc = "error"
    /\ blockIndexChan = <<>> /\ blockIndexClosed
    /\ indexer' = [indexer EXCEPT !.pc = "done"]
    /\ IndexFrame
    /\ UNCHANGED <<lsi, prefetchBlockChan, blockIndexChan, preflightGetChan,
                   getExistingContentChan, indexFlushChan, indexFlushReplyChan, history>>

ErrorSteps == ErrorTakeFlush \/ ErrorFlushReply \/ ErrorTakeBlockIndex
              \/ ErrorTakeExisting \/ ErrorChanClosed

\* ------------------------------------------------------------------ facade
\* what no call of the facade changes
CallFrame == UNCHANGED <<Workers, chanSlots, blockHash, blockPath, backendCalls, ladder, accessType, localIndex, ioFaults, blobs, lsi, prefetchBlockChan,
                         blockIndexChan, workerFlushChan, workerFlushReplyChan,
                         indexFlushChan, indexFlushReplyChan, blockIndexClosed,
                         prefetchBlocks, prefetchMemory, workers, indexer, getCalls,
                         panicked, writers>>

\* the hashes whose put has completed with code 0
PutSucceeded == {puts[i] : i \in {j \in DOMAIN puts : 0 \in Range(putCalls[j])}}

\* the facade calls issued so far (Close apart)
Calls == Len(puts) + Len(gets) + history.preflights + history.queries + Len(flushers)

\* PutStoredBlock
CallPut(h, max) ==
    /\ closer = "open" /\ Calls < max
    /\ Len(putBlockChan) < putBlockChanCap
    /\ puts' = Append(puts, h)
    /\ putCalls' = Append(putCalls, <<>>)
    /\ putBlockChan' = Append(putBlockChan, Len(puts) + 1)
    /\ CallFrame
    /\ UNCHANGED <<getBlockChan, preflightGetChan, getExistingContentChan, putClosed,
                   flushers, closer, gets, flushCalls, history>>

\* GetStoredBlock
CallGet(h, max) ==
    /\ closer = "open" /\ Calls < max
    /\ Len(getBlockChan) < getBlockChanCap
    /\ gets' = Append(gets, [h |-> h, afterPut |-> h \in PutSucceeded])
    /\ getBlockChan' = Append(getBlockChan, Len(gets) + 1)
    /\ getCalls' = Append(getCalls, <<>>)
    /\ UNCHANGED <<Workers, chanSlots, blockHash, blockPath, backendCalls, ladder, accessType, localIndex, ioFaults, blobs, lsi, prefetchBlockChan,
                   blockIndexChan, workerFlushChan, workerFlushReplyChan,
                   indexFlushChan, indexFlushReplyChan, blockIndexClosed,
                   prefetchBlocks, prefetchMemory, workers, indexer,
                   panicked, writers>>
    /\ UNCHANGED <<putBlockChan, preflightGetChan, getExistingContentChan, putClosed,
                   flushers, closer, puts, putCalls, flushCalls, history>>

\* PreflightGet
CallPreflight(blockHashes, max) ==
    /\ closer = "open" /\ Calls < max
    /\ Len(preflightGetChan) < 16
    /\ preflightGetChan' = Append(preflightGetChan, blockHashes)
    /\ history' = [history EXCEPT !.preflights = @ + 1]
    /\ CallFrame
    /\ UNCHANGED <<putBlockChan, getBlockChan, getExistingContentChan, putClosed,
                   flushers, closer, puts, gets, putCalls, flushCalls>>

\* GetExistingContent
CallGetExisting(max) ==
    /\ closer = "open" /\ Calls < max
    /\ Len(getExistingContentChan) < 16
    /\ getExistingContentChan' = Append(getExistingContentChan, 1)
    /\ history' = [history EXCEPT !.queries = @ + 1]
    /\ CallFrame
    /\ UNCHANGED <<putBlockChan, getBlockChan, preflightGetChan, putClosed,
                   flushers, closer, puts, gets, putCalls, flushCalls>>

\* Flush: starts its goroutine
CallFlush(max) ==
    /\ closer = "open" /\ Calls < max
    /\ flushers' = Append(flushers, [pc |-> "send", i |-> 0, any_errno |-> 0,
                                     before |-> PutSucceeded])
    /\ flushCalls' = Append(flushCalls, <<>>)
    /\ CallFrame
    /\ UNCHANGED <<putBlockChan, getBlockChan, preflightGetChan, getExistingContentChan,
                   putClosed, closer, puts, gets, putCalls, history>>

\* what no step of a Flush goroutine changes
FlushFrame == UNCHANGED <<Workers, chanSlots, blockHash, blockPath, backendCalls, ladder, accessType, localIndex, ioFaults, blobs, lsi, putBlockChan, getBlockChan,
                          prefetchBlockChan, blockIndexChan, preflightGetChan,
                          getExistingContentChan, putClosed, blockIndexClosed,
                          prefetchBlocks, prefetchMemory, workers, indexer, closer,
                          puts, gets, putCalls, getCalls, history, panicked, writers>>

FirstErrno(any_errno, errno) == IF errno # 0 /\ any_errno = 0 THEN errno ELSE any_errno

\* the replies the Flush goroutine awaits before it sends the maintainer's token
RepliesAwaited == workerCount

\* s.workerFlushChan <- 1, workerCount times
FlushSendWorker(f) ==
    /\ flushers[f].pc = "send"
    /\ workerFlushChan < workerFlushChanCap
    /\ workerFlushChan' = workerFlushChan + 1
    /\ flushers' = [flushers EXCEPT ![f] =
                       IF @.i + 1 = workerCount THEN [@ EXCEPT !.pc = "recv", !.i = 0]
                       ELSE [@ EXCEPT !.i = @ + 1]]
    /\ FlushFrame
    /\ UNCHANGED <<workerFlushReplyChan, indexFlushChan, indexFlushReplyChan, flushCalls>>

\* errno := <-s.workerFlushReplyChan, workerCount times
FlushRecvWorker(f) ==
    /\ flushers[f].pc = "recv"
    /\ workerFlushReplyChan # <<>>
    /\ workerFlushReplyChan' = Tail(workerFlushReplyChan)
    /\ flushers' = [flushers EXCEPT ![f] =
                       [@ EXCEPT !.any_errno = FirstErrno(@, Head(workerFlushReplyChan)),
                                 !.pc = IF flushers[f].i + 1 = RepliesAwaited
                                        THEN "send_index" ELSE "recv",
                                 !.i = IF flushers[f].i + 1 = RepliesAwaited
                                       THEN 0 ELSE @ + 1]]
    /\ FlushFrame
    /\ UNCHANGED <<workerFlushChan, indexFlushChan, indexFlushReplyChan, flushCalls>>

\* s.indexFlushChan <- 1
FlushSendIndex(f) ==
    /\ flushers[f].pc = "send_index"
    /\ indexFlushChan < 1
    /\ indexFlushChan' = indexFlushChan + 1
    /\ flushers' = [flushers EXCEPT ![f].pc = "recv_index"]
    /\ FlushFrame
    /\ UNCHANGED <<workerFlushChan, workerFlushReplyChan, indexFlushReplyChan, flushCalls>>

\* errno := <-s.indexFlushReplyChan, then asyncCompleteAPI.OnComplete(any_errno)
FlushRecvIndex(f) ==
    /\ flushers[f].pc = "recv_index"
    /\ indexFlushReplyChan # <<>>
    /\ indexFlushReplyChan' = Tail(indexFlushReplyChan)
    /\ LET any == FirstErrno(flushers[f].any_errno, Head(indexFlushReplyChan)) IN
       /\ flushers' = [flushers EXCEPT ![f] = [@ EXCEPT !.pc = "done", !.any_errno = any]]
       /\ flushCalls' = [flushCalls EXCEPT ![f] = Append(@, any)]
    /\ FlushFrame
    /\ UNCHANGED <<workerFlushChan, workerFlushReplyChan, indexFlushChan>>

\* what no step of Close changes
CloseFrame == UNCHANGED <<Workers, chanSlots, blockHash, blockPath, backendCalls, ladder, accessType, localIndex, ioFaults, blobs, lsi, putBlockChan, getBlockChan,
                          prefetchBlockChan, blockIndexChan, preflightGetChan,
                          getExistingContentChan, workerFlushChan, workerFlushReplyChan,
                          indexFlushChan, indexFlushReplyChan, prefetchBlocks,
                          prefetchMemory, workers, indexer, flushers, puts, gets,
                          putCalls, getCalls, flushCalls, history, panicked, writers>>

\* Close: close(s.putBlockChan)
CloseStart ==
    /\ closer = "open"
    /\ \A f \in DOMAIN flushers : flushers[f].pc = "done"
    /\ putClosed' = TRUE
    /\ closer' = "workers"
    /\ CloseFrame
    /\ UNCHANGED blockIndexClosed

\* Close: every worker's error was received; close(s.blockIndexChan)
CloseWorkersExited ==
    /\ closer = "workers"
    /\ \A w \in Workers : workers[w].pc = "done"
    /\ blockIndexClosed' = TRUE
    /\ closer' = "indexer"
    /\ CloseFrame
    /\ UNCHANGED putClosed

\* Close: the maintainer's error was received; Close returns
CloseReturns ==
    /\ closer = "indexer"
    /\ indexer.pc = "done"
    /\ closer' = "closed"
    /\ CloseFrame
    /\ UNCHANGED <<putClosed, blockIndexClosed>>

\* --------------------------------------------- concurrent store.lsi writers
\* the block a writer adds with its n-th update: the writers' sets are disjoint
WriterBase(w) == CASE w = "A" -> 10 [] w = "B" -> 20 [] OTHER -> 30
WriterBlock(w, n) == WriterBase(w) + n
Submitted(w, n) == {WriterBlock(w, k) : k \in 1..n}

IdleWriter == [pc |-> "idle", n |-> 0, local |-> {}, existed |-> FALSE, version |-> 0,
               remote |-> {}, failed |-> FALSE, retried |-> FALSE]

\* what no step of a writer changes
WriterFrame == UNCHANGED <<Workers, chanSlots, blockHash, blockPath, backendCalls, ladder, accessType, localIndex, ioFaults, blobs, chans, prefetchBlocks,
                           prefetchMemory, workers, indexer, flushers, closer, puts, gets,
                           putCalls, getCalls, flushCalls, history, panicked>>

\* an updateRemoteStoreIndex that returns after the first try
RetriesNever(ok, err) == FALSE

\* updateRemoteStoreIndex's loop: another try after tryUpdateRemoteStoreIndex
\* returned ok == false with a nil error
Retries(ok, err) == ~ok /\ err = 0

\* tryUpdateRemoteStoreIndex: objHandle.LockWriteVersion()
WriterLock(w) ==
    /\ writers[w].pc = "lock"
    /\ \E err \in {FALSE} \cup {e \in {TRUE} : ioFaults} :
       writers' = [writers EXCEPT ![w] =
                      IF err THEN [@ EXCEPT !.pc = "done", !.failed = TRUE]
                      ELSE [@ EXCEPT !.pc = IF lsi.exists THEN "read" ELSE "write",
                                     !.existed = lsi.exists, !.version = lsi.version,
                                     !.remote = {}]]
    /\ UNCHANGED lsi
    /\ WriterFrame

\* tryUpdateRemoteStoreIndex: objHandle.Read() of the existing index
WriterRead(w) ==
    /\ writers[w].pc = "read"
    /\ \E err \in {FALSE} \cup {e \in {TRUE} : ioFaults} :
       writers' = [writers EXCEPT ![w] =
                      IF err THEN [@ EXCEPT !.pc = "done", !.failed = TRUE]
                      ELSE [@ EXCEPT !.pc = "write", !.remote = lsi.blocks]]
    /\ UNCHANGED lsi
    /\ WriterFrame

\* tryUpdateRemoteStoreIndex: objHandle.Write(), then updateRemoteStoreIndex
\* returns or tries again
WriterWrite(w) ==
    /\ writers[w].pc = "write"
    /\ LET wr == writers[w]
           blob == BlobToWrite(wr.local, wr.existed, wr.remote)
       IN \E err \in {FALSE} \cup {e \in {TRUE} : ioFaults} :
          IF err
          THEN /\ writers' = [writers EXCEPT ![w] = [@ EXCEPT !.pc = "done", !.failed = TRUE]]
               /\ UNCHANGED lsi
          ELSE LET ok == WriteAccepted(lsi, wr.version) IN
               IF Retries(ok, 0)
               THEN /\ writers' = [writers EXCEPT ![w] =
                                      [@ EXCEPT !.pc = "lock", !.retried = TRUE]]
                    /\ UNCHANGED lsi
               ELSE /\ writers' = [writers EXCEPT ![w] =
                                      [@ EXCEPT !.pc = "idle", !.n = @ + 1, !.local = blob]]
                    /\ lsi' = IF ok THEN [exists |-> TRUE, blocks |-> blob,
                                          version |-> lsi.version + 1]
                              ELSE lsi
    /\ WriterFrame

\* a process merges its next block into its index and calls updateRemoteStoreIndex
WriterUpdate(w) ==
    /\ writers[w].pc = "idle"
    /\ writers[w].n < MaxUpdates
    /\ writers' = [writers EXCEPT ![w] =
                      [@ EXCEPT !.pc = "lock",
                                !.local = @ \cup {WriterBlock(w, writers[w].n + 1)}]]
    /\ UNCHANGED lsi
    /\ WriterFrame

\* ------------------------------------------------------------ specifications
NoHistory == [putOps |-> 0, biSent |-> {}, taken |-> {}, lsiWrites |-> 0,
              preflights |-> 0, queries |-> 0, written |-> [h \in Hashes |-> 0],
              answers |-> <<>>, received |-> {}, failCount |-> 0]

NoIndexObject == [exists |-> FALSE, blocks |-> {}, version |-> 0]

\* the store right after NewRemoteBlockStore, over a backend whose block
\* objects are objs (by key) and whose store.lsi object is index, the maintainer
\* goroutine being in state ix
ConstructedWith(objs, index, ix) ==
    /\ blobs = objs
    /\ lsi = index
    /\ putBlockChan = <<>> /\ getBlockChan = <<>> /\ prefetchBlockChan = <<>>
    /\ blockIndexChan = <<>> /\ preflightGetChan = <<>> /\ getExistingContentChan = <<>>
    /\ workerFlushChan = 0 /\ workerFlushReplyChan = <<>>
    /\ indexFlushChan = 0 /\ indexFlushReplyChan = <<>>
    /\ putClosed = FALSE /\ blockIndexClosed = FALSE
    /\ prefetchBlocks = [h \in Hashes |-> NoEntry]
    /\ prefetchMemory = 0
    /\ workers = [w \in Workers |-> IdleWorker]
    /\ indexer = ix
    /\ flushers = <<>>
    /\ closer = "open"
    /\ puts = <<>> /\ gets = <<>>
    /\ putCalls = <<>> /\ getCalls = <<>> /\ flushCalls = <<>>
    /\ history = NoHistory
    /\ panicked = FALSE

\* the same with the maintainer past its client creation
ConstructedOver(objs, index) == ConstructedWith(objs, index, IdleIndexer)

\* the store right after NewRemoteBlockStore, over a backend holding the blocks B
\* and, when withIndex, a store.lsi listing them
Constructed(B, withIndex) ==
    ConstructedOver([h \in Hashes |-> IF h \in B THEN h ELSE NoBlob],
                    IF withIndex THEN [exists |-> TRUE, blocks |-> B, version |-> 1]
                    ELSE NoIndexObject)

\* the store part of an initial state: W workers, access types A, local index
\* files L, fault modes F, initial backends (blocks, index present) in Bs
Opened(W, A, L, F, Bs) ==
    /\ Workers = W
    /\ chanSlots = ChanSlots
    /\ accessType \in A
    /\ localIndex \in L
    /\ ioFaults \in F
    /\ \E b \in Bs : Constructed(b[1], b[2])
    /\ writers = [w \in Writers |-> IdleWriter]

\* the initial states of a scenario of the store
Start(W, A, L, F, Bs) ==
    /\ blockHash = <<>> /\ blockPath = <<>>
    /\ backendCalls = NoBackendCalls /\ ladder = NoLadder
    /\ Opened(W, A, L, F, Bs)

PutSteps(w) == TakePut(w) \/ PutExists(w) \/ PutWrite(w)
GetSteps(w) == TakeGet(w) \/ FetchRead(w) \/ FetchEnd(w)
PrefetchSteps(w) == TakePrefetch(w) \/ PrefetchRead(w) \/ PrefetchEnd(w)
FlushSteps(w) == TakeFlush(w) \/ FlushLocked(w) \/ FlushReply(w)
ExitSteps(w) == PutChanClosed(w) \/ ExitDrain(w) \/ ExitFlush(w)

FlushStep(f) ==
    \/ FlushSendWorker(f) \/ FlushRecvWorker(f) \/ FlushSendIndex(f) \/ FlushRecvIndex(f)

CloseStep == CloseStart \/ CloseWorkersExited \/ CloseReturns

\* Scenario "put and flush": callers put blocks, flush and close.
Init == Start(AllWorkers, {AccessInit, ReadWrite}, {InvalidIndex}, {TRUE},
              {<<{}, FALSE>>, <<{1}, TRUE>>})

Next ==
    /\ ~panicked
    /\ \/ \E h \in PutHashes : CallPut(h, MaxCalls)
       \/ CallFlush(MaxCalls)
       \/ CloseStep
       \/ \E w \in Workers : PollDefault(w) \/ PutSteps(w) \/ FlushSteps(w) \/ ExitSteps(w)
       \/ IndexPollDefault \/ IndexTakeBlockIndex \/ IndexChanClosed
       \/ IndexTakeFlush \/ IndexFlushReply \/ IndexExit
       \/ \E f \in DOMAIN flushers : FlushStep(f)

Spec == Init /\ [][Next]_vars

\* Scenario "cache": callers get blocks, announce them with PreflightGet and flush.
InitCache == Start(AllWorkers, {ReadOnly}, {InvalidIndex}, {TRUE}, {<<{}, FALSE>>, <<{1}, TRUE>>})

NextCache ==
    /\ ~panicked
    /\ \/ CallGet(1, CacheCalls)
       \/ CallPreflight(<<1>>, CacheCalls)
       \/ CallFlush(CacheCalls)
       \/ \E w \in Workers : PollDefault(w) \/ GetSteps(w) \/ PrefetchSteps(w) \/ FlushSteps(w)
       \/ IndexPollDefault \/ IndexTakePreflight \/ IndexTakeFlush \/ IndexFlushReply
       \/ \E f \in DOMAIN flushers : FlushStep(f)

SpecCache == InitCache /\ [][NextCache]_vars

\* Scenario "get after put": callers put a block, announce it with PreflightGet
\* and get it, on a writable store whose backend never fails.  Every worker and
\* the maintainer are goroutines the scheduler keeps running.
InitRead == Start(AllWorkers, {ReadWrite}, {InvalidIndex}, {FALSE},
                  {<<{}, FALSE>>, <<{1}, TRUE>>})

WorkerRead(w) == PollDefault(w) \/ PutSteps(w) \/ GetSteps(w) \/ PrefetchSteps(w)

IndexRead == IndexPollDefault \/ IndexTakePreflight \/ IndexTakeBlockIndex

NextRead ==
    /\ ~panicked
    /\ \/ CallPut(1, ReadCalls)
       \/ CallPreflight(<<1>>, ReadCalls)
       \/ CallGet(1, ReadCalls)
       \/ \E w \in Workers : WorkerRead(w)
       \/ IndexRead

FairSpecRead ==
    /\ InitRead /\ [][NextRead]_vars
    /\ \A w \in AllWorkers : WF_vars(WorkerRead(w))
    /\ WF_vars(IndexRead)

\* Scenario "access": the same calls (put, PreflightGet, GetExistingContent,
\* Flush, Close) on a writable and on a ReadOnly store, the latter with or
\* without a local index file.
InitAccess ==
    \/ Start(AllWorkers, {ReadWrite}, {InvalidIndex}, {TRUE}, {<<{}, FALSE>>, <<{1}, TRUE>>})
    \/ Start(AllWorkers, {ReadOnly}, {InvalidIndex, StoreIndexOf({1})}, {TRUE},
             {<<{}, FALSE>>, <<{1}, TRUE>>})

NextAccess ==
    /\ ~panicked
    /\ \/ CallPut(1, AccessCalls)
       \/ CallPreflight(<<1>>, AccessCalls)
       \/ CallGetExisting(AccessCalls)
       \/ CallFlush(AccessCalls)
       \/ CloseStep
       \/ \E w \in Workers : \/ PollDefault(w) \/ PutSteps(w) \/ PrefetchSteps(w)
                              \/ FlushSteps(w) \/ ExitSteps(w)
       \/ IndexPollDefault \/ IndexTakePreflight \/ IndexTakeExisting \/ IndexTakeBlockIndex
       \/ IndexChanClosed \/ IndexTakeFlush \/ IndexFlushReply \/ IndexExit
       \/ \E f \in DOMAIN flushers : FlushStep(f)

SpecAccess == InitAccess /\ [][NextAccess]_vars

\* Scenario "memory budget": three workers; the caller announces three stored
\* blocks with one PreflightGet.
InitBudget == Start(ManyWorkers, {ReadOnly}, {InvalidIndex}, {FALSE}, {<<{1, 2, 3}, TRUE>>})

NextBudget ==
    /\ ~panicked
    /\ \/ CallPreflight(<<1, 2, 3>>, BudgetCalls)
       \/ \E w \in Workers : PollDefault(w) \/ PrefetchSteps(w)
       \/ IndexPollDefault \/ IndexTakePreflight

SpecBudget == InitBudget /\ [][NextBudget]_vars

\* Scenario "init": a store opened with access type Init over an empty backend
\* or one that holds a block; callers put a block and query the index.
InitBootstrap == Start(AllWorkers, {AccessInit}, {InvalidIndex}, {TRUE},
                       {<<{}, FALSE>>, <<{1}, FALSE>>, <<{1}, TRUE>>})

NextBootstrap ==
    /\ ~panicked
    /\ \/ CallPut(2, BootCalls)
       \/ CallGetExisting(BootCalls)
       \/ \E w \in Workers : PollDefault(w) \/ PutSteps(w)
       \/ IndexPollDefault \/ IndexTakeExisting \/ IndexTakeBlockIndex

SpecBootstrap == InitBootstrap /\ [][NextBootstrap]_vars

\* Scenario "corrupt object": the object at the key of hash 1 holds the block
\* of hash 2, the object at the key of hash 2 is sound; callers get the blocks
\* and announce them with PreflightGet.  The backend's reads never fail.
InitCorrupt ==
    /\ blockHash = <<>> /\ blockPath = <<>>
    /\ backendCalls = NoBackendCalls /\ ladder = NoLadder
    /\ Workers = AllWorkers /\ chanSlots = ChanSlots /\ accessType = ReadOnly /\ localIndex = InvalidIndex
    /\ ioFaults = FALSE
    /\ ConstructedOver([h \in Hashes |-> IF h \in PutHashes THEN 2 ELSE NoBlob],
                       [exists |-> TRUE, blocks |-> {2}, version |-> 1])
    /\ writers = [w \in Writers |-> IdleWriter]

NextCorrupt ==
    /\ ~panicked
    /\ \/ \E h \in PutHashes : CallGet(h, CorruptCalls) \/ CallPreflight(<<h>>, CorruptCalls)
       \/ \E w \in Workers : PollDefault(w) \/ GetSteps(w) \/ PrefetchSteps(w)
       \/ IndexPollDefault \/ IndexTakePreflight

SpecCorrupt == InitCorrupt /\ [][NextCorrupt]_vars

\* Scenario "block path": GetBlockPath("chunks", h) is called for a hash h.
\* The hashes tried: the leading VaryBytes bytes range over ByteInputs, the
\* remaining bytes all hold one value of TailInputs.
ByteInputs == {0, 1, 171, 255}
TailInputs == {0, 205}
HashInputs ==
    {lead \o [i \in 1..(HashBytes - VaryBytes) |-> t] :
        lead \in [1..VaryBytes -> ByteInputs], t \in TailInputs}

InitPath ==
    /\ blockHash \in HashInputs /\ blockPath = <<>>
    /\ backendCalls = NoBackendCalls /\ ladder = NoLadder
    /\ Opened(AllWorkers, {ReadWrite}, {InvalidIndex}, {FALSE}, {<<{}, FALSE>>})

CallGetBlockPath ==
    /\ blockPath = <<>>
    /\ \E sep \in Separators : blockPath' = GetBlockPath(Chunks, blockHash, sep)
    /\ UNCHANGED <<Workers, chanSlots, blockHash, backendCalls, ladder, accessType, localIndex, ioFaults, blobs, lsi, chans,
                   prefetchBlocks, prefetchMemory, workers, indexer, flushers, closer,
                   puts, gets, putCalls, getCalls, flushCalls, history, panicked, writers>>

NextPath == CallGetBlockPath

SpecPath == InitPath /\ [][NextPath]_vars

\* Scenario "flush while busy": the caller gets a block and calls Flush while a
\* worker is inside the backend read of a get.
CallFlushWhileReading(max) ==
    /\ \E w \in Workers : workers[w].pc = "fetch_read"
    /\ CallFlush(max)

InitBarrier == Start(AllWorkers, {ReadOnly}, {InvalidIndex}, {FALSE}, {<<{1}, TRUE>>})

NextBarrier ==
    /\ ~panicked
    /\ \/ CallGet(1, BarrierCalls)
       \/ CallFlushWhileReading(BarrierCalls)
       \/ \E w \in Workers : PollDefault(w) \/ GetSteps(w) \/ FlushSteps(w)
       \/ IndexPollDefault \/ IndexTakeFlush \/ IndexFlushReply
       \/ \E f \in DOMAIN flushers : FlushStep(f)

SpecBarrier == InitBarrier /\ [][NextBarrier]_vars

\* Scenario "flush": callers announce two blocks with PreflightGet, get one of
\* them and flush.  The backend's reads never fail.
InitFlush == Start(AllWorkers, {ReadOnly}, {InvalidIndex}, {FALSE}, {<<{1, 2}, TRUE>>})

NextFlush ==
    /\ ~panicked
    /\ \/ CallGet(1, FlushCalls)
       \/ CallPreflight(<<1, 2>>, FlushCalls)
       \/ CallFlush(FlushCalls)
       \/ \E w \in Workers : PollDefault(w) \/ GetSteps(w) \/ PrefetchSteps(w) \/ FlushSteps(w)
       \/ IndexPollDefault \/ IndexTakePreflight \/ IndexTakeFlush \/ IndexFlushReply
       \/ \E f \in DOMAIN flushers : FlushStep(f)

SpecFlush == InitFlush /\ [][NextFlush]_vars

\* Scenario "failed maintainer": a writable store whose maintainer may fail to
\* create its client; puts, PreflightGet, GetExistingContent, Flush and Close.
InitError ==
    /\ blockHash = <<>> /\ blockPath = <<>>
    /\ backendCalls = NoBackendCalls /\ ladder = NoLadder
    /\ Workers = AllWorkers /\ chanSlots = ChanSlots /\ accessType = ReadWrite /\ localIndex = InvalidIndex
    /\ ioFaults = TRUE
    /\ ConstructedWith([h \in Hashes |-> NoBlob], NoIndexObject, StartingIndexer)
    /\ writers = [w \in Writers |-> IdleWriter]

NextError ==
    /\ ~panicked
    /\ \/ CallPut(1, ErrorCalls)
       \/ CallPreflight(<<1>>, ErrorCalls)
       \/ CallGetExisting(ErrorCalls)
       \/ CallFlush(ErrorCalls)
       \/ CloseStep
       \/ \E w \in Workers : \/ PollDefault(w) \/ PutSteps(w) \/ PrefetchSteps(w)
                              \/ FlushSteps(w) \/ ExitSteps(w)
       \/ IndexNewClient
       \/ ErrorSteps
       \/ IndexPollDefault \/ IndexTakePreflight \/ IndexTakeExisting \/ IndexTakeBlockIndex
       \/ IndexChanClosed \/ IndexTakeFlush \/ IndexFlushReply \/ IndexExit
       \/ \E f \in DOMAIN flushers : FlushStep(f)

SpecError == InitError /\ [][NextError]_vars

\* Scenario "drain": callers put a block and get a stored one, then close the
\* store; the backend never fails.
InitClose == Start(AllWorkers, {ReadWrite}, {InvalidIndex}, {FALSE}, {<<{1}, TRUE>>})

NextClose ==
    /\ ~panicked
    /\ \/ CallPut(2, CloseCalls)
       \/ CallGet(1, CloseCalls)
       \/ CloseStep
       \/ \E w \in Workers : \/ PollDefault(w) \/ PutSteps(w) \/ GetSteps(w) \/ ExitSteps(w)
       \/ IndexPollDefault \/ IndexTakeBlockIndex \/ IndexChanClosed \/ IndexExit

SpecClose == InitClose /\ [][NextClose]_vars

\* Scenario "missing index": a writable store over a backend that holds block 1
\* but no store.lsi; callers put block 2, query the existing content and flush.
InitRebuild == Start(AllWorkers, {ReadWrite}, {InvalidIndex}, {FALSE}, {<<{1}, FALSE>>})

NextRebuild ==
    /\ ~panicked
    /\ \/ CallPut(2, RebuildCalls)
       \/ CallGetExisting(RebuildCalls)
       \/ CallFlush(RebuildCalls)
       \/ \E w \in Workers : PollDefault(w) \/ PutSteps(w) \/ FlushSteps(w)
       \/ IndexPollDefault \/ IndexTakeExisting \/ IndexTakeBlockIndex
       \/ IndexTakeFlush \/ IndexFlushReply
       \/ \E f \in DOMAIN flushers : FlushStep(f)

SpecRebuild == InitRebuild /\ [][NextRebuild]_vars

\* Scenario "full channels": a store whose large channels have SmallSlots slots
\* per worker; callers put block 1 and announce three blocks with one PreflightGet.
InitFull ==
    /\ blockHash = <<>> /\ blockPath = <<>>
    /\ backendCalls = NoBackendCalls /\ ladder = NoLadder
    /\ Workers = AllWorkers /\ chanSlots = SmallSlots
    /\ accessType = ReadWrite /\ localIndex = InvalidIndex /\ ioFaults = FALSE
    /\ Constructed({1, 2, 3}, TRUE)
    /\ writers = [w \in Writers |-> IdleWriter]

NextFull ==
    /\ ~panicked
    /\ \/ CallPut(1, FullCalls)
       \/ history.preflights = 0 /\ CallPreflight(<<1, 2, 3>>, FullCalls)
       \/ \E w \in Workers : PollDefault(w) \/ PutSteps(w) \/ PrefetchSteps(w)
       \/ IndexPollDefault \/ IndexStartPreflight \/ IndexSendPrefetch
       \/ IndexTakeBlockIndex

SpecFull == InitFull /\ [][NextFull]_vars

\* Scenario "retry": one run of the read ladder or of the write ladder, over
\* every answer of Exists and every outcome of the four calls.
InitRetry ==
    /\ backendCalls \in [exists : {"error", "absent", "present"},
                         outcomes : [1..MaxAttempts -> BOOLEAN]]
    /\ ladder = NoLadder
    /\ blockHash = <<>> /\ blockPath = <<>>
    /\ Opened(AllWorkers, {ReadWrite}, {InvalidIndex}, {TRUE}, {<<{}, FALSE>>})

RetryFrame == UNCHANGED <<Workers, chanSlots, blockHash, blockPath, backendCalls, accessType, localIndex,
                          ioFaults, blobs, lsi, chans, prefetchBlocks, prefetchMemory,
                          workers, indexer, flushers, closer, puts, gets, putCalls,
                          getCalls, flushCalls, history, panicked, writers>>

CallReadBlobWithRetry ==
    /\ ladder = NoLadder
    /\ ladder' = ReadBlobWithRetry(backendCalls.exists, backendCalls.outcomes)
    /\ RetryFrame

CallWriteWithRetry ==
    /\ ladder = NoLadder /\ backendCalls.exists = "absent"
    /\ ladder' = WriteWithRetry(backendCalls.outcomes)
    /\ RetryFrame

NextRetry == CallReadBlobWithRetry \/ CallWriteWithRetry

SpecRetry == InitRetry /\ [][NextRetry]_vars

\* Scenario "writers": processes update the same store.lsi concurrently, each
\* adding blocks of its own.
InitWriters == Start(AllWorkers, {ReadWrite}, {InvalidIndex}, BOOLEAN,
                     {<<{}, FALSE>>, <<{1}, TRUE>>})

NextWriters ==
    \E w \in Writers : WriterUpdate(w) \/ WriterLock(w) \/ WriterRead(w) \/ WriterWrite(w)

SpecWriters == InitWriters /\ [][NextWriters]_vars

\* ------------------------------------------------------------------- claims
\* what store.lsi held before any writer started: the model's initial backends
\* list exactly the stored blocks
InitialIndex == {h \in Hashes : blobs[h] # NoBlob}

AllSubmitted == UNION {Submitted(w, writers[w].n) : w \in Writers}

AllReturned ==
    \A w \in Writers : writers[w].pc = "idle" /\ writers[w].n = MaxUpdates /\ ~writers[w].failed

\* C2: once every writer's updates have returned success, store.lsi holds the
\* union of the writers' disjoint block sets and of what it held initially
CasConvergence ==
    AllReturned => lsi.exists /\ lsi.blocks = AllSubmitted \cup InitialIndex

\* every writer returned success and some Write was refused and tried again
CasConvergenceWitness ==
    /\ AllReturned
    /\ \E w \in Writers : writers[w].retried
    /\ lsi.blocks = AllSubmitted \cup InitialIndex

\* C3: the block set of store.lsi only grows: no step removes the object or a
\* block that an earlier write stored
NoWriteLost ==
    [][(lsi.exists => lsi'.exists) /\ lsi.blocks \subseteq lsi'.blocks]_vars

\* a writer that merged another writer's block has replaced store.lsi
NoWriteLostWitness ==
    /\ lsi.exists
    /\ \E w \in Writers :
          /\ writers[w].n >= 1
          /\ writers[w].existed
          /\ writers[w].pc = "idle"
          /\ lsi.blocks = writers[w].local
          /\ \E v \in Writers \ {w} : Submitted(v, 1) \subseteq writers[w].remote

\* the hashes whose BlockIndex a worker has sent to the maintainer
Enqueued == {puts[i] : i \in history.biSent}

Writable == accessType \in {ReadWrite, AccessInit}

\* C1: on a writable store, once a Flush has completed with code 0, store.lsi
\* lists every block whose put had completed with success (its BlockIndex sent
\* to the maintainer) before that Flush was called
FlushBarrier ==
    Writable =>
        \A f \in DOMAIN flushers :
            0 \in Range(flushCalls[f]) =>
                (flushers[f].before \cap Enqueued) \subseteq (IF lsi.exists THEN lsi.blocks ELSE {})

\* C7: a put whose callback fired with code 0 has its block object in the
\* backend and its BlockIndex sent to the maintainer
PutDurable ==
    \A i \in DOMAIN puts :
        0 \in Range(putCalls[i]) => blobs[puts[i]] = puts[i] /\ i \in history.biSent

\* the workers inside getStoredBlock for hash h, from fetchBlock or prefetchBlock
Reading(h) ==
    {w \in Workers : workers[w].pc \in {"fetch_read", "prefetch_read"} /\ workers[w].h = h}

\* C4: at most one worker at a time performs the backend read for a hash
SingleFetch == \A h \in Hashes : Cardinality(Reading(h)) <= 1

\* C6: the callback of a get is invoked at most once
GetCallbackOnce == \A id \in DOMAIN getCalls : Len(getCalls[id]) <= 1

\* two gets of one hash and a prefetch of it were issued and both gets were
\* answered with the block, each once
GetCallbackOnceWitness ==
    /\ Len(gets) >= 2
    /\ history.preflights >= 1
    /\ \A id \in DOMAIN getCalls : Len(getCalls[id]) = 1 /\ getCalls[id][1].code = 0
    /\ prefetchBlocks[1] = Tombstone

\* the callback of get id has been invoked
Answered(id) == id \in DOMAIN getCalls /\ getCalls[id] # <<>>

\* C5: every GetStoredBlock a worker has dequeued eventually has its callback
\* invoked
GetAnswered ==
    \A id \in 1..ReadCalls : (id \in history.taken) ~> Answered(id)

\* C8: a get issued after a put of the same hash completed with success is
\* eventually answered with that block
GetAfterPut ==
    \A id \in 1..ReadCalls :
        (id \in DOMAIN gets /\ gets[id].afterPut)
            ~> (Answered(id) /\ getCalls[id][1].code = 0
                             /\ getCalls[id][1].block = gets[id].h)

\* C9: on a ReadOnly store every put taken from the channel is completed with
\* EACCES, putStoredBlock is never entered (no Exists, no Write on the backend)
\* and no BlockIndex is sent to the maintainer
ReadOnlyRejectsPuts ==
    accessType = ReadOnly =>
        /\ \A i \in DOMAIN puts :
              IF \E k \in DOMAIN putBlockChan : putBlockChan[k] = i
              THEN putCalls[i] = <<>>
              ELSE putCalls[i] = <<EACCES>>
        /\ \A w \in Workers : workers[w].pc \notin {"put_exists", "put_write"}
        /\ history.putOps = 0
        /\ history.biSent = {} /\ blockIndexChan = <<>>

\* a ReadOnly store whose prefetch memory is full has rejected every put
ReadOnlyRejectsPutsWitness ==
    /\ accessType = ReadOnly
    /\ prefetchMemory >= MaxPrefetchMemory
    /\ puts # <<>> /\ putBlockChan = <<>>
    /\ \A i \in DOMAIN puts : putCalls[i] = <<EACCES>>

\* C10: on a ReadOnly store the maintainer never writes store.lsi and its
\* saveStoreIndex flag is never set
ReadOnlyNeverPersists ==
    accessType = ReadOnly => history.lsiWrites = 0 /\ ~indexer.saveStoreIndex

\* a ReadOnly store's maintainer loaded its index for a GetExistingContent,
\* answered a Flush and exited at Close
ReadOnlyNeverPersistsWitness ==
    /\ accessType = ReadOnly
    /\ indexer.pc = "done"
    /\ history.queries >= 1 /\ getExistingContentChan = <<>>
    /\ \E f \in DOMAIN flushCalls : flushCalls[f] = <<0>>

\* C11: on a writable store the object of a block is written to the backend at
\* most once however often and by however many workers the block is put, and
\* every such put completes once, with code 0
PutIdempotent ==
    Writable =>
        /\ \A h \in Hashes : history.written[h] <= 1
        /\ \A i \in DOMAIN puts : Len(putCalls[i]) <= 1 /\ \A k \in DOMAIN putCalls[i] : putCalls[i][k] = 0

\* no worker is inside fetchBlock, prefetchBlock or flushPrefetch
Quiescent ==
    \A w \in Workers :
        workers[w].pc \notin {"fetch_read", "fetch_lock", "prefetch_read", "prefetch_lock",
                              "flush_lock", "exit_lock"}

\* the sizes of the stored blocks held in cache slots
HeldMemory == SumSizes(prefetchBlocks, Hashes)

\* C12: whenever no worker is inside fetchBlock, prefetchBlock or flushPrefetch,
\* prefetchMemory is the sum of the sizes of the blocks stored in cache slots
MemoryAccounted == Quiescent => prefetchMemory = HeldMemory

\* C13: prefetchMemory never exceeds maxPrefetchMemory by more than the size of
\* one block
MemoryBudget == \A h \in Hashes : prefetchMemory <= MaxPrefetchMemory + BlockSize(h)

\* the puts whose callback fired with code 0
Succeeded == {i \in DOMAIN puts : 0 \in Range(putCalls[i])}

\* Close has returned and the maintainer returned no error
ClosedClean == closer = "closed" /\ indexer.pc = "done" /\ indexer.code = 0

\* C14: on a writable store, when Close has returned without an error of the
\* maintainer, store.lsi lists the block of every put that completed with
\* success, whether or not a Flush was called
CloseDurable ==
    (Writable /\ ClosedClean) =>
        \A i \in Succeeded : lsi.exists /\ puts[i] \in lsi.blocks

\* C15: on a store opened with access type Init the index starts empty: a
\* query is answered with no block but those whose BlockIndex the maintainer
\* received, never with blocks found by listing the backend
InitStartsEmpty ==
    accessType = AccessInit =>
        \A k \in DOMAIN history.answers : history.answers[k] \subseteq history.received

\* the keys whose object decodes to a block of another hash
Mismatching == {h \in Hashes : blobs[h] \notin {NoBlob, h}}

\* the workers inside fetchBlock or prefetchBlock for hash h
Serving(h) ==
    {w \in Workers : workers[w].h = h
                     /\ workers[w].pc \in {"fetch_read", "fetch_lock", "prefetch_read", "prefetch_lock"}}

\* a fetch of a mismatching object fails with EBADF and yields no block
MismatchIsBadFile ==
    \A w \in Workers :
        (workers[w].pc = "fetch_lock" /\ workers[w].h \in Mismatching) =>
            workers[w].err = EBADF /\ workers[w].block = NoBlock

\* no get of a mismatching object completes with success or with a block
MismatchNeverServed ==
    \A id \in DOMAIN gets :
        gets[id].h \in Mismatching =>
            \A k \in DOMAIN getCalls[id] :
                getCalls[id][k].code # 0 /\ getCalls[id][k].block = NoBlock

\* a mismatching block is in no cache slot
MismatchNeverCached == \A h \in Mismatching : prefetchBlocks[h].stored = NoBlock

\* the gets waiting in a slot of a mismatching object are waiting for a worker
\* that will complete them
MismatchWaitersServed ==
    \A h \in Mismatching : prefetchBlocks[h].cbs # <<>> => Serving(h) # {}

\* each fetch of a mismatching object adds one to GetStoredBlock_FailCount
MismatchCountedOnce ==
    [][\A w \in Workers :
          (/\ workers[w].pc \in {"fetch_read", "prefetch_read"}
           /\ workers'[w].pc # workers[w].pc
           /\ workers[w].h \in Mismatching)
          => history'.failCount = history.failCount + 1]_vars

\* C16: a fetch of an object whose block has another hash fails with EBADF, the
\* get and every waiter complete with an error and no block, and the block is
\* never cached
CorruptRejected ==
    /\ MismatchIsBadFile
    /\ MismatchNeverServed
    /\ MismatchNeverCached
    /\ MismatchWaitersServed

LowerHex == {"0", "1", "2", "3", "4", "5", "6", "7", "8", "9", "a", "b", "c", "d", "e", "f"}

\* the number a string of hexadecimal digits denotes, as bytes, high first
DigitValue(c) == CHOOSE d \in 0..15 : HexDigits[d + 1] = c
DecodeHash(hex) ==
    [i \in 1..(Len(hex) \div 2) |-> DigitValue(hex[2 * i - 1]) * 16 + DigitValue(hex[2 * i])]

\* the path is "chunks/" + hex4 + "/0x" + hex16 + ".lsb" with hex16 the
\* lowercase 16-digit form of the hash and hex4 the four digits of hex16 from
\* position first on; it holds no backslash and no other hash has the same path
PathScheme(first) ==
    blockPath # <<>> =>
        LET hex16 == SubSeq(blockPath, Len(blockPath) - 19, Len(blockPath) - 4)
            hex4 == SubSeq(hex16, first, first + 3)
        IN /\ blockPath = Chunks \o <<"/">> \o hex4 \o <<"/", "0", "x">> \o hex16
                                 \o <<".", "l", "s", "b">>
           /\ Len(hex16) = 16 /\ \A i \in DOMAIN hex16 : hex16[i] \in LowerHex
           /\ DecodeHash(hex16) = blockHash
           /\ "\\" \notin Range(blockPath)
           /\ \A other \in HashInputs \ {blockHash} : \A sep \in Separators :
                 GetBlockPath(Chunks, other, sep) # blockPath

\* C18 as stated: hex4 is the 2nd to 5th digit of hex16
BlockPathAsStated == PathScheme(2)

\* C18: GetBlockPath("chunks", h) is "chunks/" + hex4 + "/0x" + hex16 + ".lsb",
\* hex16 the lowercase zero-padded 16-digit hexadecimal form of h and hex4 its
\* first four digits; the path holds no backslash and distinct hashes have
\* distinct paths
BlockPathScheme == PathScheme(1)

BlockPathSchemeWitness ==
    /\ blockPath # <<>>
    /\ blockHash[1] = 1 /\ blockHash[2] = 171
    /\ SubSeq(blockPath, 8, 11) = <<"0", "1", "a", "b">>

\* worker w leaves prefetchBlock's second critical section having found its
\* slot with waiters
PrefetchServes(w) ==
    /\ workers[w].pc = "prefetch_lock" /\ workers'[w].pc # "prefetch_lock"
    /\ prefetchBlocks[workers[w].h].kind = "slot"
    /\ Len(prefetchBlocks[workers[w].h].cbs) >= 1

\* C19: when prefetchBlock's read succeeded and its slot holds waiters, the slot
\* becomes a tombstone and every waiter's callback is invoked once, with code 0
\* and the block
PrefetchServesAll ==
    [][\A w \in Workers :
          PrefetchServes(w) =>
              LET h == workers[w].h
                  cbs == prefetchBlocks[h].cbs
              IN /\ prefetchBlocks'[h] = Tombstone
                 /\ \A k \in DOMAIN cbs :
                       getCalls'[cbs[k]] = Append(getCalls[cbs[k]], [code |-> 0, block |-> h])]_vars

\* the step takes the block stored in the slot of h out of the slot
Unstored(h) == IsValid(prefetchBlocks[h].stored) /\ ~IsValid(prefetchBlocks'[h].stored)

\* the step is fetchBlock handing the stored block of h to the one get it serves
MovedOut(h) ==
    /\ \E w \in Workers : TakeGet(w)
    /\ \E id \in DOMAIN getCalls :
          /\ getCalls'[id] = Append(getCalls[id], [code |-> 0, block |-> prefetchBlocks[h].stored])
          /\ \A other \in DOMAIN getCalls \ {id} : getCalls'[other] = getCalls[other]

\* the step is flushPrefetch disposing the blocks of the slots it removes
Disposed(h) ==
    /\ \E w \in Workers : FlushLocked(w) \/ ExitFlush(w)
    /\ prefetchMemory' <= prefetchMemory - BlockSize(prefetchBlocks[h].stored)

\* C20: a block stored in a cache slot leaves the slot only by being handed to
\* exactly one get or by being disposed by flushPrefetch; it is never dropped
\* by a step that overwrites the slot
StoredBlockOwned ==
    [][\A h \in Hashes : Unstored(h) => MovedOut(h) \/ Disposed(h)]_vars

\* the Flush goroutines that have sent their token to the maintainer
PastWorkerPhase == {f \in DOMAIN flushers : flushers[f].pc \in {"recv_index", "done"}}

\* C21: when a Flush, called while a worker was inside the backend read of the
\* only get issued, sends its token to the maintainer, that worker has taken a
\* flush token and run flushPrefetch, so it is no longer inside that read
FlushReachesEveryWorker ==
    (Len(gets) = 1 /\ PastWorkerPhase # {}) =>
        \A w \in Workers : workers[w].pc # "fetch_read"

\* the entries without waiters: tombstones, empty in-flight slots, completed slots
Unwaited == {h \in Hashes : prefetchBlocks[h].kind # "absent" /\ prefetchBlocks[h].cbs = <<>>}

\* C22: flushPrefetch empties the prefetch channel; then, in one step under the
\* mutex, it removes exactly the entries without waiters, decreases
\* prefetchMemory by the sizes of the stored blocks among them and leaves every
\* other entry as it was
FlushPrefetchEffect ==
    [][\A w \in Workers :
          /\ (InSelect(workers[w].pc) /\ workers'[w].pc = "flush_lock") =>
                prefetchBlockChan' = <<>>
          /\ (workers[w].pc = "flush_lock" /\ workers'[w].pc = "flush_reply") =>
                /\ \A h \in Hashes :
                      prefetchBlocks'[h] = IF h \in Unwaited THEN NoEntry ELSE prefetchBlocks[h]
                /\ prefetchMemory' = prefetchMemory - SumSizes(prefetchBlocks, Unwaited)]_vars

\* a flushPrefetch has just left a waited-for slot in place and removed
\* another entry, after blocks had been stored
FlushPrefetchEffectWitness ==
    \E w \in Workers :
        /\ workers[w].pc = "flush_reply"
        /\ \E h \in Hashes : prefetchBlocks[h].kind = "slot" /\ prefetchBlocks[h].cbs # <<>>
        /\ \E h \in PutHashes : prefetchBlocks[h].kind = "absent"
        /\ history.preflights >= 1

\* the calls that succeed, and the calls a ladder makes: up to the first
\* success, all four when none succeeds
Successes == {k \in 1..MaxAttempts : backendCalls.outcomes[k]}
CallsDue == IF Successes = {} THEN MaxAttempts
            ELSE CHOOSE k \in Successes : \A j \in Successes : k <= j
FailedCalls == IF Successes = {} THEN MaxAttempts ELSE CallsDue - 1
Capped(n, cap) == IF n > cap THEN cap ELSE n

FlushReplyReportsFailure ==
    [][(/\ Len(indexFlushReplyChan') > Len(indexFlushReplyChan)
        /\ indexer.pc = "error_reply" \/ indexer.saveStoreIndex)
       => indexFlushReplyChan'[Len(indexFlushReplyChan')] # 0]_vars

\* C30: every PreflightGet and GetExistingContent request enqueued before Close
\* has had its completion callback invoked (a request leaves its channel at the
\* step that completes it) by the time the maintainer has returned, also when
\* the maintainer runs its error-reply state
RequestsAnswered ==
    indexer.pc = "done" => preflightGetChan = <<>> /\ getExistingContentChan = <<>>

\* C26: no cache slot ever holds a stored block together with waiting gets, and
\* a get joins a slot's waiters only while the slot holds no stored block
SlotStates ==
    [][\A h \in Hashes :
          /\ prefetchBlocks'[h].kind = "slot" =>
                prefetchBlocks'[h].stored = NoBlock \/ prefetchBlocks'[h].cbs = <<>>
          /\ (/\ prefetchBlocks[h].kind = "slot" /\ prefetchBlocks'[h].kind = "slot"
              /\ Len(prefetchBlocks'[h].cbs) > Len(prefetchBlocks[h].cbs))
             => prefetchBlocks[h].stored = NoBlock]_vars

\* one slot holds a stored block while a get waits in the other
SlotStatesWitness ==
    /\ prefetchBlocks[1].kind = "slot" /\ prefetchBlocks[1].cbs # <<>>
    /\ prefetchBlocks[2].kind = "slot" /\ prefetchBlocks[2].stored # NoBlock

\* C28: when fetchBlock reacquires the mutex after its backend read, the map
\* still has an entry for its hash, a slot or a tombstone
FetchSlotPresent ==
    /\ ~panicked
    /\ \A w \in Workers :
          workers[w].pc = "fetch_lock" => prefetchBlocks[workers[w].h].kind # "absent"

\* C25: once the workers have exited, every put and every get enqueued before
\* Close has had its completion callback invoked
CloseDrains ==
    (\A w \in Workers : workers[w].pc = "done") =>
        /\ \A id \in DOMAIN puts : putCalls[id] # <<>>
        /\ \A id \in DOMAIN gets : getCalls[id] # <<>>

\* the hashes of the valid block objects of the backend
StoredInBackend == {h \in Hashes : blobs[h] = h}

\* C27: the first store.lsi the maintainer writes on a backend that had none
\* lists every valid block object of the backend
FirstIndexComplete ==
    [][(~lsi.exists /\ lsi'.exists) => StoredInBackend \subseteq lsi'.blocks]_vars

\* worker w is inside putStoredBlock with only the send of the BlockIndex left
InPutSend(w) ==
    \/ workers[w].pc = "put_write"
    \/ workers[w].pc = "put_exists" /\ blobs[workers[w].h] # NoBlob

\* C29: in no reachable state is every worker waiting to send a BlockIndex on
\* the full block-index channel while the maintainer waits to send a prefetch
\* request on the full prefetch channel
NoSendDeadlock ==
    ~(/\ \A w \in Workers : InPutSend(w)
      /\ Len(blockIndexChan) = blockIndexChanCap
      /\ indexer.pc = "preflight_send" /\ indexer.sending # <<>>
      /\ Len(prefetchBlockChan) = prefetchBlockChanCap)

====
